---- MODULE Spec2Model ----
(***************************************************************************)
(* Model of generator.py: the Path Parser (parse_folder_structure), the    *)
(* Indent Parser (parse_tree_structure), the Materializer                  *)
(* (create_structure) and the two interactive program flows (main() and    *)
(* the tree-parser branch under __main__).                                 *)
(*                                                                         *)
(* Text is a sequence of one-character strings.  The four tree-drawing     *)
(* glyphs of the source are written with ASCII stand-ins:                  *)
(*     VBAR "|"  for U+2502,  TEE "+" for U+251C,                          *)
(*     CORNER "L" for U+2514, DASH "-" for U+2500.                         *)
(* A Python dict is an association list (insertion order kept); dicts live *)
(* in a heap (a sequence indexed by object identity) so that two           *)
(* references to the same dict are the same heap index.  The value 0 is    *)
(* the str "" (a file), a value n > 0 is a reference to the dict heap[n].  *)
(***************************************************************************)
EXTENDS Integers, Sequences, FiniteSets, TLC

VARIABLES
    text,        \* text_input handed to the parser / folder_structure_text
    lines,       \* text_input.strip().split('\n')
    pos,         \* index in lines of the next line the parser's loop takes
    heap,        \* the dict objects; heap[1] is root / stack[0]
    err,         \* TRUE when the parser raised (TypeError)
    stack,       \* parse_tree_structure: stack (references into heap)
    path_stack,  \* parse_tree_structure: path_stack
    hist,        \* per non-skipped line of parse_tree_structure: what it did
    pc,          \* program flow: position in main() / __main__
    flow,        \* "path" (main()) or "tree" (the else branch of __main__)
    main_folder, \* the target name, after .strip() and the default
    answer,      \* the raw text typed at the overwrite prompt
    asked,       \* TRUE once the overwrite prompt was answered
    fs,          \* the filesystem below the working directory
    fs0,         \* the filesystem when the program started
    todo,        \* create_structure's remaining iterations, in order
    removed,     \* TRUE once shutil.rmtree(main_folder) was called
    outcome      \* how the run ended

vars == <<text, lines, pos, heap, err, stack, path_stack, hist, pc, flow,
          main_folder, answer, asked, fs, fs0, todo, removed, outcome>>


----------------------------------------------------------------------------
(* Characters *)

VBAR == "|"
TEE == "+"
CORNER == "L"
DASH == "-"
NL == "\n"

\* tree_chars of parse_folder_structure; the class of the regex of parse_tree_structure
tree_chars == {TEE, CORNER, VBAR, DASH}

\* what str.strip() / str.rstrip() / str.lstrip() / \s remove
IsSpace(c) == c \in {" ", NL}

FILE == 0

----------------------------------------------------------------------------
(* str methods *)

RECURSIVE LStrip(_)
LStrip(s) == IF s # <<>> /\ IsSpace(Head(s)) THEN LStrip(Tail(s)) ELSE s

RECURSIVE RStrip(_)
RStrip(s) ==
    IF s # <<>> /\ IsSpace(s[Len(s)]) THEN RStrip(SubSeq(s, 1, Len(s) - 1)) ELSE s

Strip(s) == RStrip(LStrip(s))

\* s.split(sep): the pieces between the separators, empty pieces kept
RECURSIVE SplitFrom(_, _, _)
SplitFrom(s, sep, cur) ==
    IF s = <<>> THEN <<cur>>
    ELSE IF Head(s) = sep THEN <<cur>> \o SplitFrom(Tail(s), sep, <<>>)
    ELSE SplitFrom(Tail(s), sep, Append(cur, Head(s)))

Split(s, sep) == SplitFrom(s, sep, <<>>)

\* c in s, for a single character c
Contains(s, c) == \E i \in 1..Len(s) : s[i] = c

\* s.rstrip('/')
RECURSIVE RStripSlash(_)
RStripSlash(s) ==
    IF s # <<>> /\ s[Len(s)] = "/" THEN RStripSlash(SubSeq(s, 1, Len(s) - 1)) ELSE s

\* s.lower(), on the letters the model's inputs use
Lower(s) == [i \in 1..Len(s) |-> IF s[i] = "Y" THEN "y" ELSE IF s[i] = "N" THEN "n" ELSE s[i]]

\* sep.join(ls)
RECURSIVE Join(_, _)
Join(ls, sep) ==
    IF ls = <<>> THEN <<>>
    ELSE IF Len(ls) = 1 THEN ls[1]
    ELSE ls[1] \o <<sep>> \o Join(Tail(ls), sep)

----------------------------------------------------------------------------
(* dict *)

DictHas(d, k) == \E i \in 1..Len(d) : d[i].key = k

DictIndex(d, k) == CHOOSE i \in 1..Len(d) : d[i].key = k

DictGet(d, k) == d[DictIndex(d, k)].val

\* d[k] = v: a new key is appended, an existing key keeps its place
DictSet(d, k, v) ==
    IF DictHas(d, k) THEN [d EXCEPT ![DictIndex(d, k)].val = v]
    ELSE Append(d, [key |-> k, val |-> v])

\* h with the dict h[n] changed by n[k] = v
HeapSet(h, n, k, v) == [h EXCEPT ![n] = DictSet(h[n], k, v)]

\* h with a fresh empty dict {} stored as n[k]; the new dict is h'[Len(h) + 1]
HeapSetNew(h, n, k) == Append(HeapSet(h, n, k, Len(h) + 1), <<>>)

\* `part not in current`: key membership on a dict, substring test on the str ""
NotIn(h, current, part) ==
    IF current = FILE THEN part # <<>> ELSE ~DictHas(h[current], part)

----------------------------------------------------------------------------
(* parse_folder_structure *)

\* lines 23-25: every tree character replaced by a space
ReplaceTreeChars(line) ==
    [i \in 1..Len(line) |-> IF line[i] \in tree_chars THEN " " ELSE line[i]]

\* IsFile with the bug of testing the whole line for a '.', not its last segment
IsFile_WholeLine(clean_line) == Contains(clean_line, ".")

\* line 37
IsFile(clean_line) ==
    IF Contains(clean_line, "/")
    THEN LET ps == Split(clean_line, "/") IN Contains(ps[Len(ps)], ".")
    ELSE Contains(clean_line, ".")

\* lines 43-53: the loop over parts from index i on, current being a dict
\* reference or the str "".  Item assignment on a str and indexing a str
\* with a str raise TypeError.
RECURSIVE WalkParts(_, _, _, _, _)
WalkParts(h, current, parts, i, is_file) ==
    IF i > Len(parts) THEN [heap |-> h, err |-> FALSE]
    ELSE LET part == parts[i] IN
        IF i = Len(parts)
        THEN IF is_file
             THEN IF current = FILE THEN [heap |-> h, err |-> TRUE]
                  ELSE [heap |-> HeapSet(h, current, part, FILE), err |-> FALSE]
             ELSE IF NotIn(h, current, part)
                  THEN IF current = FILE THEN [heap |-> h, err |-> TRUE]
                       ELSE [heap |-> HeapSetNew(h, current, part), err |-> FALSE]
                  ELSE [heap |-> h, err |-> FALSE]
        ELSE IF NotIn(h, current, part)
             THEN IF current = FILE THEN [heap |-> h, err |-> TRUE]
                  ELSE LET h1 == HeapSetNew(h, current, part) IN
                       WalkParts(h1, DictGet(h1[current], part), parts, i + 1, is_file)
             ELSE IF current = FILE THEN [heap |-> h, err |-> TRUE]
                  ELSE WalkParts(h, DictGet(h[current], part), parts, i + 1, is_file)

\* lines 54-60: an entry without '/', set at root
SimpleEntry(h, clean_line, is_file) ==
    IF is_file THEN HeapSet(h, 1, clean_line, FILE)
    ELSE IF ~DictHas(h[1], clean_line) THEN HeapSetNew(h, 1, clean_line)
    ELSE h

\* lines 14-31: the clean_line of a raw line (<<>> when the line is skipped)
FolderCleanLine(raw) ==
    LET line == RStrip(raw) IN
    IF line = <<>> THEN <<>> ELSE Strip(ReplaceTreeChars(line))

\* lines 13-60: one iteration of the loop over lines
ParseFolderLine(h, raw) ==
    LET clean_line == FolderCleanLine(raw) IN
    IF clean_line = <<>> THEN [heap |-> h, err |-> FALSE]
    ELSE LET is_file == IsFile(clean_line) IN
         IF Contains(clean_line, "/")
         THEN WalkParts(h, 1, Split(clean_line, "/"), 1, is_file)
         ELSE [heap |-> SimpleEntry(h, clean_line, is_file), err |-> FALSE]

\* line 10
SplitLines(text_input) == Split(Strip(text_input), NL)

----------------------------------------------------------------------------
(* parse_tree_structure *)

\* line 249: re.sub(r'[glyphs]\s*', '', line): every glyph, wherever it
\* stands, is removed together with the whitespace that follows it
RECURSIVE ReSub(_)
ReSub(s) ==
    IF s = <<>> THEN <<>>
    ELSE IF Head(s) \in tree_chars THEN ReSub(LStrip(Tail(s)))
    ELSE <<Head(s)>> \o ReSub(Tail(s))

\* lines 254-261: the count of leading spaces and vertical bars
RECURSIVE Indent(_)
Indent(line) ==
    IF line # <<>> /\ Head(line) \in {" ", VBAR} THEN 1 + Indent(Tail(line)) ELSE 0

\* PopTo with the bug of popping back to the root whatever the indent
PopTo_Root(stk, indent) == SubSeq(stk, 1, 1)

\* lines 264-266: while len(stack) > indent + 1: pop
RECURSIVE PopTo(_, _)
PopTo(stk, indent) ==
    IF Len(stk) > indent + 1 THEN PopTo(SubSeq(stk, 1, Len(stk) - 1), indent) ELSE stk

\* line 271
IsDirectory(clean_line) ==
    \/ (clean_line # <<>> /\ clean_line[Len(clean_line)] = "/")
    \/ (LET ps == Split(clean_line, "/") IN
          ~Contains(ps[Len(ps)], ".") /\ ~Contains(clean_line, "/"))

\* lines 245-251: the clean_line of a raw line (<<>> when the line is skipped)
TreeCleanLine(line) == IF Strip(line) = <<>> THEN <<>> ELSE Strip(ReSub(line))

\* DirectoryLine with the bug of pushing a fresh {} instead of the mapping
\* just stored under current_level (stack.append({}))
DirectoryLine_FreshDict(h, stk, pstk, indent, clean_line) ==
    LET current_level == stk[Len(stk)]
        name == RStripSlash(clean_line)
        h1 == HeapSetNew(h, current_level, name)
    IN [heap |-> Append(h1, <<>>),
        stack |-> Append(stk, Len(h1) + 1),
        path_stack |-> Append(pstk, name),
        did |-> <<[indent |-> indent, isdir |-> TRUE, key |-> name,
                   node |-> DictGet(h1[current_level], name),
                   target |-> current_level]>>]

\* lines 272-275: a directory line opens a new mapping under current_level
\* and pushes that very mapping and its name
DirectoryLine(h, stk, pstk, indent, clean_line) ==
    LET current_level == stk[Len(stk)]
        name == RStripSlash(clean_line)
        h1 == HeapSetNew(h, current_level, name)
    IN [heap |-> h1,
        stack |-> Append(stk, DictGet(h1[current_level], name)),
        path_stack |-> Append(pstk, name),
        did |-> <<[indent |-> indent, isdir |-> TRUE, key |-> name,
                   node |-> DictGet(h1[current_level], name),
                   target |-> current_level]>>]

\* lines 276-278: a file line sets "" under current_level and pushes nothing
FileLine(h, stk, pstk, indent, clean_line) ==
    LET current_level == stk[Len(stk)]
    IN [heap |-> HeapSet(h, current_level, clean_line, FILE),
        stack |-> stk,
        path_stack |-> pstk,
        did |-> <<[indent |-> indent, isdir |-> FALSE, key |-> clean_line,
                   node |-> FILE, target |-> current_level]>>]

\* lines 244-278: one iteration of the loop over lines; st is the record of
\* heap, stack and path_stack.  did is what the iteration did to the tree
\* (<<>> when the line was skipped).
ParseTreeLine(st, line) ==
    LET clean_line == TreeCleanLine(line) IN
    IF clean_line = <<>> THEN [st EXCEPT !.did = <<>>]
    ELSE LET indent == Indent(line)
             stk == PopTo(st.stack, indent)
             pstk == PopTo(st.path_stack, indent)
         IN IF IsDirectory(clean_line)
            THEN DirectoryLine(st.heap, stk, pstk, indent, clean_line)
            ELSE FileLine(st.heap, stk, pstk, indent, clean_line)

----------------------------------------------------------------------------
(* The Tree Model as a set of entries, for comparing mappings *)

\* the entries of the dict h[n] and below: <<path, content>> with path the
\* sequence of keys from n and content "file" or "dir"
RECURSIVE Entries(_, _)
Entries(h, n) ==
    UNION {
        LET e == h[n][i] IN
        IF e.val = FILE THEN {<<(<<e.key>>), "file">>}
        ELSE {<<(<<e.key>>), "dir">>}
             \cup {<<(<<e.key>>) \o x[1], x[2]>> : x \in Entries(h, e.val)}
        : i \in 1..Len(h[n])}

\* every key of every mapping reachable from h[n]
Keys(h, n) == UNION {{x[1][i] : i \in 1..Len(x[1])} : x \in Entries(h, n)}

----------------------------------------------------------------------------
(* Bounds and input pools *)

MaxLen == 2
MaxLines == 2
MaxIndent == 2
MaxTreeLines == 3

SeqsUpTo(S, n) == UNION {[1..k -> S] : k \in 1..n}

PathAlphabet == {"a", ".", "/"}

PathExtraLines ==
    { <<>>,
      <<" ", "a">>,
      <<TEE, DASH, " ", "a", ".">>,
      <<"a", ".", "t", "x", "t">>,
      <<"a", ".", "t", "x", "t", "/", "b">>,
      <<"a", ".", "t", "x", "t", "/", "b", ".", "c">>,
      <<"a", "/", "b", "/", "c", ".", "t", "x", "t">> }

PathLinePool == SeqsUpTo(PathAlphabet, MaxLen) \cup PathExtraLines

PathTexts == {Join(ls, NL) : ls \in SeqsUpTo(PathLinePool, MaxLines)}

Spaces(n) == [i \in 1..n |-> " "]

TreePrefixes ==
    {Spaces(n) : n \in 0..MaxIndent}
    \cup {<<VBAR>> \o Spaces(n - 1) : n \in 1..MaxIndent}

TreeBodies == { <<"a", "/">>, <<"b">>, <<"a", ".", "b">> }

TreeExtraLines ==
    { <<>>,
      <<TEE, DASH, " ", "a", "/", "b", ".", "c">>,
      <<"/">> }

TreeLinePool == {p \o b : p \in TreePrefixes, b \in TreeBodies} \cup TreeExtraLines

TreeTexts == {Join(ls, NL) : ls \in SeqsUpTo(TreeLinePool, MaxTreeLines)}

----------------------------------------------------------------------------
(* The parsers, line by line *)

IdleRun ==
    /\ flow \in {"path", "tree"}
    /\ main_folder = <<>>
    /\ answer = <<>>
    /\ asked = FALSE
    /\ fs = {}
    /\ fs0 = {}
    /\ todo = <<>>
    /\ removed = FALSE
    /\ outcome = "running"

\* parse_folder_structure entered with text_input (lines 10-11)
InitPath ==
    /\ text \in PathTexts
    /\ lines = SplitLines(text)
    /\ pos = 1
    /\ heap = << <<>> >>
    /\ err = FALSE
    /\ stack = <<>>
    /\ path_stack = <<>>
    /\ hist = <<>>
    /\ pc = "parse"
    /\ IdleRun
    /\ flow = "path"

\* one iteration of the for loop of parse_folder_structure (lines 13-60)
FolderLine ==
    /\ pc = "parse"
    /\ pos <= Len(lines)
    /\ LET r == ParseFolderLine(heap, lines[pos]) IN
         /\ heap' = r.heap
         /\ err' = r.err
         /\ pc' = IF r.err THEN "raised" ELSE "parse"
         /\ pos' = IF r.err THEN pos ELSE pos + 1
    /\ UNCHANGED <<text, lines, stack, path_stack, hist>>
    /\ UNCHANGED <<flow, main_folder, answer, asked, fs, fs0, todo, removed, outcome>>

\* return root (line 62)
FolderReturn ==
    /\ pc = "parse"
    /\ pos > Len(lines)
    /\ pc' = "returned"
    /\ UNCHANGED <<text, lines, pos, heap, err, stack, path_stack, hist>>
    /\ UNCHANGED <<flow, main_folder, answer, asked, fs, fs0, todo, removed, outcome>>

NextPath == FolderLine \/ FolderReturn

SpecPath == InitPath /\ [][NextPath]_vars

\* parse_tree_structure entered with text_input (lines 240-242)
InitTree ==
    /\ text \in TreeTexts
    /\ lines = SplitLines(text)
    /\ pos = 1
    /\ heap = << <<>> >>
    /\ err = FALSE
    /\ stack = <<1>>
    /\ path_stack = << <<>> >>
    /\ hist = <<>>
    /\ pc = "parse"
    /\ IdleRun
    /\ flow = "tree"

\* one iteration of the for loop of parse_tree_structure (lines 244-278)
TreeLine ==
    /\ pc = "parse"
    /\ pos <= Len(lines)
    /\ LET r == ParseTreeLine([heap |-> heap, stack |-> stack,
                               path_stack |-> path_stack, did |-> <<>>], lines[pos])
       IN /\ heap' = r.heap
          /\ stack' = r.stack
          /\ path_stack' = r.path_stack
          /\ hist' = hist \o r.did
    /\ pos' = pos + 1
    /\ UNCHANGED <<text, lines, err, pc>>
    /\ UNCHANGED <<flow, main_folder, answer, asked, fs, fs0, todo, removed, outcome>>

\* return stack[0] (line 280)
TreeReturn ==
    /\ pc = "parse"
    /\ pos > Len(lines)
    /\ pc' = "returned"
    /\ UNCHANGED <<text, lines, pos, heap, err, stack, path_stack, hist>>
    /\ UNCHANGED <<flow, main_folder, answer, asked, fs, fs0, todo, removed, outcome>>

NextTree == TreeLine \/ TreeReturn

SpecTree == InitTree /\ [][NextTree]_vars

----------------------------------------------------------------------------
(* The filesystem collaborator *)

\* os.path.join(a, b)
PathJoin(a, b) ==
    IF b # <<>> /\ Head(b) = "/" THEN b
    ELSE IF a = <<>> \/ a[Len(a)] = "/" THEN a \o b
    ELSE a \o <<"/">> \o b

\* os.path.dirname(p)
DirName(p) ==
    LET idx == {i \in 1..Len(p) : p[i] = "/"}
        i == IF idx = {} THEN 0 ELSE CHOOSE m \in idx : \A k \in idx : k <= m
        head == SubSeq(p, 1, i)
    IN IF head # <<>> /\ RStripSlash(head) # <<>> THEN RStripSlash(head) ELSE head

ROOTDIR == <<"/">>

\* the components a path string names, relative to the working directory;
\* an absolute path starts with the component ROOTDIR
FsPath(p) ==
    LET cs == SelectSeq(Split(p, "/"), LAMBDA c : c # <<>>)
    IN IF p # <<>> /\ Head(p) = "/" THEN <<ROOTDIR>> \o cs ELSE cs

IsDirAt(f, c) ==
    c = <<>> \/ c = <<ROOTDIR>> \/ \E e \in f : e.path = c /\ e.kind = "dir"

IsFileAt(f, c) == \E e \in f : e.path = c /\ e.kind = "file"

\* os.path.exists(p)
Exists(f, p) == IsDirAt(f, FsPath(p)) \/ IsFileAt(f, FsPath(p))

\* os.makedirs(p, exist_ok=True): the missing directories of p are made; a
\* file at p or above it is an error
MakeDirs(f, p) ==
    LET c == FsPath(p) IN
    IF \E k \in 1..Len(c) : IsFileAt(f, SubSeq(c, 1, k))
    THEN [fs |-> f, ok |-> FALSE]
    ELSE [fs |-> f \cup {[path |-> SubSeq(c, 1, k), kind |-> "dir", empty |-> TRUE]
                         : k \in {m \in 1..Len(c) : ~IsDirAt(f, SubSeq(c, 1, m))}},
          ok |-> TRUE]

\* open(p, 'w') and f.write(content or ''): the file is created or truncated;
\* a missing parent, a file as parent or a directory at p is an error
WriteFile(f, p) ==
    LET c == FsPath(p) IN
    IF c = <<>> \/ IsDirAt(f, c) \/ ~IsDirAt(f, SubSeq(c, 1, Len(c) - 1))
    THEN [fs |-> f, ok |-> FALSE]
    ELSE [fs |-> {e \in f : e.path # c}
                 \cup {[path |-> c, kind |-> "file", empty |-> TRUE]},
          ok |-> TRUE]

\* shutil.rmtree(p): p and all below it are removed; p not a directory is an error
RmTree(f, p) ==
    LET c == FsPath(p) IN
    IF ~IsDirAt(f, c) THEN [fs |-> f, ok |-> FALSE]
    ELSE [fs |-> {e \in f : ~(Len(c) <= Len(e.path) /\ SubSeq(e.path, 1, Len(c)) = c)},
          ok |-> TRUE]

----------------------------------------------------------------------------
(* create_structure *)

\* lines 68-83: the iterations of create_structure(base_path, h[n]) from
\* item i on, in order, those of the recursive calls included
RECURSIVE CreateFrom(_, _, _, _)
CreateFrom(h, base_path, n, i) ==
    IF i > Len(h[n]) THEN <<>>
    ELSE LET full_path == PathJoin(base_path, h[n][i].key) IN
         (IF h[n][i].val # FILE
          THEN <<[op |-> "folder", path |-> full_path]>>
               \o CreateFrom(h, full_path, h[n][i].val, 1)
          ELSE <<[op |-> "file", path |-> full_path]>>)
         \o CreateFrom(h, base_path, n, i + 1)

\* one iteration (lines 69-83) on the filesystem f; fault names the call the
\* environment fails ("none", "makedirs" or "open")
CreateEntry(f, it, fault) ==
    IF it.op = "folder"
    THEN IF fault = "makedirs" THEN [fs |-> f, ok |-> FALSE] ELSE MakeDirs(f, it.path)
    ELSE LET parent_dir == DirName(it.path)
             needs == parent_dir # <<>> /\ ~Exists(f, parent_dir)
             r1 == IF needs
                   THEN IF fault = "makedirs" THEN [fs |-> f, ok |-> FALSE]
                        ELSE MakeDirs(f, parent_dir)
                   ELSE [fs |-> f, ok |-> TRUE]
         IN IF ~r1.ok THEN r1
            ELSE IF fault = "open" THEN [fs |-> r1.fs, ok |-> FALSE]
            ELSE WriteFile(r1.fs, it.path)

----------------------------------------------------------------------------
(* The parsers as called by the program *)

RECURSIVE FolderLoop(_, _, _)
FolderLoop(h, ls, i) ==
    IF i > Len(ls) THEN [heap |-> h, err |-> FALSE]
    ELSE LET r == ParseFolderLine(h, ls[i]) IN
         IF r.err THEN r ELSE FolderLoop(r.heap, ls, i + 1)

\* parse_folder_structure(text_input), lines 10-62
parse_folder_structure(text_input) == FolderLoop(<< <<>> >>, SplitLines(text_input), 1)

RECURSIVE TreeLoop(_, _, _)
TreeLoop(st, ls, i) ==
    IF i > Len(ls) THEN st ELSE TreeLoop(ParseTreeLine(st, ls[i]), ls, i + 1)

\* parse_tree_structure(text_input), lines 240-280
parse_tree_structure(text_input) ==
    TreeLoop([heap |-> << <<>> >>, stack |-> <<1>>, path_stack |-> << <<>> >>,
              did |-> <<>>], SplitLines(text_input), 1)

----------------------------------------------------------------------------
(* Console input *)

\* lines 115-129: the lines read until two empty lines in a row (or the end
\* of input), the last empty line removed, joined with newlines
RECURSIVE ReadLines(_, _, _)
ReadLines(typed, i, acc) ==
    IF i > Len(typed) THEN acc
    ELSE IF typed[i] = <<>> /\ acc # <<>> /\ acc[Len(acc)] = <<>> THEN acc
    ELSE ReadLines(typed, i + 1, Append(acc, typed[i]))

get_user_input(typed) ==
    LET ls == ReadLines(typed, 1, <<>>)
        kept == IF ls # <<>> /\ ls[Len(ls)] = <<>> THEN SubSeq(ls, 1, Len(ls) - 1) ELSE ls
    IN Join(kept, NL)

\* OverwriteConfirmed with the bug of going on unless the answer is 'n'
OverwriteConfirmed_NotNo(typed) == Lower(Strip(typed)) # <<"n">>

\* lines 178-179 and 316-317: overwrite = input(...).strip().lower(); 'y' goes on
OverwriteConfirmed(typed) == Lower(Strip(typed)) = <<"y">>

----------------------------------------------------------------------------
(* Inputs of a run *)

\* the tree of display_welcome (lines 96-100), typed line by line
ExampleTree ==
    << <<"p", "r", "o", "j", "e", "c", "t", "/">>,
       <<TEE, DASH, DASH, " ", "s", "r", "c", "/">>,
       <<VBAR, " ", " ", " ", TEE, DASH, DASH, " ", "m", "a", "i", "n", ".", "p", "y">>,
       <<VBAR, " ", " ", " ", CORNER, DASH, DASH, " ", "u", "t", "i", "l", "s", "/">>,
       <<CORNER, DASH, DASH, " ", "R", "E", "A", "D", "M", "E", ".", "m", "d">> >>

Demo == <<"d", "e", "m", "o">>

MyProject == <<"m", "y", "_", "p", "r", "o", "j", "e", "c", "t">>

NameSrc == <<"s", "r", "c">>

NameUtils == <<"u", "t", "i", "l", "s">>

NameMainPy == <<"m", "a", "i", "n", ".", "p", "y">>

NameReadme == <<"R", "E", "A", "D", "M", "E", ".", "m", "d">>

NameOld == <<"o", "l", "d", ".", "t", "x", "t">>

\* what the operator pastes, before the two empty lines that end the paste
Pastes ==
    { <<>>,
      ExampleTree,
      << <<TEE, DASH, DASH>> >>,
      << <<"a", "/", "b", "/", "c", ".", "t", "x", "t">> >>,
      << <<"a", ".", "t", "x", "t">>, <<"a", ".", "t", "x", "t", "/", "b">> >>,
      << <<"a", "/">>, <<" ", "b", ".", "c">> >> }

Choices == { <<>>, <<"1">>, <<"2">>, <<" ", "2">> }

FolderNames == { <<>>, Demo, <<" ">> \o Demo }

Answers == { <<>>, <<"y">>, <<"Y">>, <<" ", "y", " ">>, <<"n">>, <<"y", "e", "s">> }

Faults == {"none", "makedirs", "open"}

\* the working directory before the run: empty, with a populated directory
\* demo, or with a file demo
InitialFs ==
    { {},
      { [path |-> <<Demo>>, kind |-> "dir", empty |-> TRUE],
        [path |-> <<Demo, NameOld>>, kind |-> "file", empty |-> FALSE] },
      { [path |-> <<Demo>>, kind |-> "file", empty |-> FALSE] } }

----------------------------------------------------------------------------
(* The program: __main__ (lines 282-328) and main() (lines 142-211) *)

InitRun ==
    /\ fs0 \in InitialFs
    /\ fs = fs0
    /\ pc = "choice"
    /\ flow = "tree"
    /\ text = <<>>
    /\ lines = <<>>
    /\ pos = 1
    /\ heap = << <<>> >>
    /\ err = FALSE
    /\ stack = <<>>
    /\ path_stack = <<>>
    /\ hist = <<>>
    /\ main_folder = <<>>
    /\ answer = <<>>
    /\ asked = FALSE
    /\ todo = <<>>
    /\ removed = FALSE
    /\ outcome = "running"

\* lines 290-296: "2" runs main(), anything else the tree parser branch
ChooseFormat ==
    /\ pc = "choice"
    /\ \E choice \in Choices :
         flow' = IF Strip(choice) = <<"2">> THEN "path" ELSE "tree"
    /\ pc' = "input"
    /\ UNCHANGED <<text, lines, pos, heap, err, stack, path_stack, hist, main_folder,
                   answer, asked, fs, fs0, todo, removed, outcome>>

\* lines 149-153 and 299-303: the text is read; an empty text ends the run
ReadStructure ==
    /\ pc = "input"
    /\ \E paste \in Pastes :
         text' = get_user_input(paste \o << <<>>, <<>> >>)
    /\ IF Strip(text') = <<>>
       THEN pc' = "done" /\ outcome' = "no_input"
       ELSE pc' = "name" /\ outcome' = outcome
    /\ UNCHANGED <<lines, pos, heap, err, stack, path_stack, hist, flow, main_folder,
                   answer, asked, fs, fs0, todo, removed>>

\* lines 156-159 and 305-306
ReadFolderName ==
    /\ pc = "name"
    /\ \E typed \in FolderNames :
         main_folder' = IF Strip(typed) = <<>> THEN MyProject ELSE Strip(typed)
    /\ pc' = "parse"
    /\ UNCHANGED <<text, lines, pos, heap, err, stack, path_stack, hist, flow,
                   answer, asked, fs, fs0, todo, removed, outcome>>

\* main(), lines 163-168 and 207-211: a TypeError of the parser is caught;
\* an empty structure ends the run
ParsePaths ==
    /\ pc = "parse"
    /\ flow = "path"
    /\ LET r == parse_folder_structure(text) IN
         /\ heap' = r.heap
         /\ err' = r.err
         /\ IF r.err THEN pc' = "done" /\ outcome' = "caught"
            ELSE IF r.heap[1] = <<>> THEN pc' = "done" /\ outcome' = "no_structure"
            ELSE pc' = "exists" /\ outcome' = outcome
    /\ UNCHANGED <<text, lines, pos, stack, path_stack, hist, flow, main_folder,
                   answer, asked, fs, fs0, todo, removed>>

\* __main__, lines 308-312: no try, no test of the structure
ParseTree ==
    /\ pc = "parse"
    /\ flow = "tree"
    /\ LET r == parse_tree_structure(text) IN
         /\ heap' = r.heap
         /\ stack' = r.stack
         /\ path_stack' = r.path_stack
    /\ pc' = "exists"
    /\ UNCHANGED <<text, lines, pos, err, hist, flow, main_folder,
                   answer, asked, fs, fs0, todo, removed, outcome>>

\* lines 176 and 314, the target does not exist: on to create_structure
TargetAbsent ==
    /\ pc = "exists"
    /\ ~Exists(fs, main_folder)
    /\ pc' = "create"
    /\ todo' = CreateFrom(heap, main_folder, 1, 1)
    /\ UNCHANGED <<text, lines, pos, heap, err, stack, path_stack, hist, flow,
                   main_folder, answer, asked, fs, fs0, removed, outcome>>

\* lines 176-181 and 314-319: the target exists, the operator is asked
ConfirmOverwrite ==
    /\ pc = "exists"
    /\ Exists(fs, main_folder)
    /\ \E typed \in Answers : answer' = typed
    /\ asked' = TRUE
    /\ IF OverwriteConfirmed(answer')
       THEN pc' = "rmtree" /\ outcome' = outcome
       ELSE pc' = "done" /\ outcome' = "cancelled"
    /\ UNCHANGED <<text, lines, pos, heap, err, stack, path_stack, hist, flow,
                   main_folder, fs, fs0, todo, removed>>

\* lines 183-184 and 320-321: shutil.rmtree(main_folder); it may fail, which
\* main() catches and __main__ does not
RemoveTarget ==
    /\ pc = "rmtree"
    /\ removed' = TRUE
    /\ \E fault \in BOOLEAN :
         LET r == IF fault THEN [fs |-> fs, ok |-> FALSE] ELSE RmTree(fs, main_folder) IN
         /\ fs' = r.fs
         /\ IF r.ok
            THEN /\ pc' = "create"
                 /\ todo' = CreateFrom(heap, main_folder, 1, 1)
                 /\ outcome' = outcome
            ELSE /\ pc' = "rmtree_failed"
                 /\ todo' = todo
                 /\ outcome' = IF flow = "path" THEN "caught" ELSE "uncaught"
    /\ UNCHANGED <<text, lines, pos, heap, err, stack, path_stack, hist, flow,
                   main_folder, answer, asked, fs0>>

\* one iteration of create_structure (lines 68-83), called at lines 190 and
\* 324; a failure leaves what was created and ends the run, caught by main()
\* and not by __main__
CreateStep ==
    /\ pc = "create"
    /\ todo # <<>>
    /\ \E fault \in Faults :
         LET r == CreateEntry(fs, Head(todo), fault) IN
         /\ fs' = r.fs
         /\ IF r.ok
            THEN /\ pc' = "create"
                 /\ todo' = Tail(todo)
                 /\ outcome' = outcome
            ELSE /\ pc' = "create_failed"
                 /\ todo' = todo
                 /\ outcome' = IF flow = "path" THEN "caught" ELSE "uncaught"
    /\ UNCHANGED <<text, lines, pos, heap, err, stack, path_stack, hist, flow,
                   main_folder, answer, asked, fs0, removed>>

\* lines 192-205 and 325: create_structure returned; the summary only reads
Finish ==
    /\ pc = "create"
    /\ todo = <<>>
    /\ pc' = "done"
    /\ outcome' = "normal"
    /\ UNCHANGED <<text, lines, pos, heap, err, stack, path_stack, hist, flow,
                   main_folder, answer, asked, fs, fs0, todo, removed>>

NextRun ==
    \/ ChooseFormat
    \/ ReadStructure
    \/ ReadFolderName
    \/ ParsePaths
    \/ ParseTree
    \/ TargetAbsent
    \/ ConfirmOverwrite
    \/ RemoveTarget
    \/ CreateStep
    \/ Finish

SpecRun == InitRun /\ [][NextRun]_vars

----------------------------------------------------------------------------
(* CLAIMS *)

IsPrefix(p, q) == Len(p) <= Len(q) /\ SubSeq(q, 1, Len(p)) = p

NoGlyphs(t) == \A i \in 1..Len(t) : t[i] \notin tree_chars

\* the slash-delimited paths the lines of the text spell, blank lines left out
PathsOf(ls) == {Split(Strip(l), "/") : l \in {ls[i] : i \in 1..Len(ls)} \ {<<>>}}

\* the direct interpretation of a set of paths: every proper prefix is a
\* directory, the full path a file when its last segment has a '.'
DirectEntries(ps) ==
    UNION {
        {<<SubSeq(q, 1, k), "dir">> : k \in 1..(Len(q) - 1)}
        \cup {<<q, IF Contains(q[Len(q)], ".") THEN "file" ELSE "dir">>}
        : q \in ps}

\* no path that a line declares a file is used by a line as a directory above
\* its last segment
ConflictFree(ps) ==
    \A q \in ps, r \in ps :
        (Contains(q[Len(q)], ".") /\ IsPrefix(q, r)) => q = r

ParseEnded == pc \in {"returned", "raised"}

ExampleLine == <<"a", "/", "b", "/", "c", ".", "t", "x", "t">>

ExampleEntries ==
    { <<(<< <<"a">> >>), "dir">>,
      <<(<< <<"a">>, <<"b">> >>), "dir">>,
      <<(<< <<"a">>, <<"b">>, <<"c", ".", "t", "x", "t">> >>), "file">> }

C3_NoError == pc # "raised" /\ ~err

\* C4: every key of every mapping of the returned Tree Model is a non-empty
\* string without '/'.
C4_KeysAreNames ==
    pc = "returned" => \A k \in Keys(heap, 1) : k # <<>> /\ ~Contains(k, "/")

\* C10: a step of the Path Parser on a line whose last segment is a directory
\* name that exists leaves that entry and all below it unchanged; on a line
\* whose last segment is a file name it leaves that path a file with nothing
\* below it; every other entry is unchanged, and only the path and its
\* prefixes are added.
C10_Step ==
    (pc = "parse" /\ pos <= Len(lines) /\ FolderCleanLine(lines[pos]) # <<>>) =>
        LET q == Split(FolderCleanLine(lines[pos]), "/")
            E == Entries(heap, 1)
            E2 == Entries(heap', 1)
        IN /\ Contains(q[Len(q)], ".") =>
                 /\ <<q, "file">> \in E2
                 /\ \A e \in E2 : IsPrefix(q, e[1]) => e[1] = q
           /\ (~Contains(q[Len(q)], ".") /\ \E e \in E : e[1] = q) =>
                 {e \in E : IsPrefix(q, e[1])} = {e \in E2 : IsPrefix(q, e[1])}
           /\ {e \in E : ~IsPrefix(q, e[1])} \subseteq E2
           /\ \A e \in E2 \ E : IsPrefix(e[1], q) \/ IsPrefix(q, e[1])

C10_AsymmetricOverwrite == [][C10_Step]_vars

\* the dicts reachable from h[n], n included
RECURSIVE Reachable(_, _)
Reachable(h, n) ==
    {n} \cup UNION {IF h[n][i].val = FILE THEN {} ELSE Reachable(h, h[n][i].val)
                    : i \in 1..Len(h[n])}

\* C8: when the last three non-skipped lines have strictly increasing indent
\* and the second is a directory, the third was inserted into the mapping
\* created for the second, which is not the root and is still the second's.
C8_DepthAnchoring ==
    LET j == Len(hist) IN
    (/\ j >= 3
     /\ hist[j - 2].indent < hist[j - 1].indent
     /\ hist[j - 1].indent < hist[j].indent
     /\ hist[j - 1].isdir)
        => /\ hist[j].target = hist[j - 1].node
           /\ hist[j].target # 1
           /\ DictHas(heap[hist[j - 1].node], hist[j].key)
           /\ DictGet(heap[hist[j - 1].target], hist[j - 1].key) = hist[j - 1].node

\* C8 witness: three such lines were processed
C8_Witness ==
    LET j == Len(hist) IN
    /\ j >= 3
    /\ hist[j - 2].indent < hist[j - 1].indent
    /\ hist[j - 1].indent < hist[j].indent
    /\ hist[j - 1].isdir
    /\ DictHas(heap[hist[j - 1].node], hist[j].key)

\* C9: stack and path_stack have the same length, at least 1; stack[0] is
\* the root; each stack[i+1] is the mapping stored in stack[i] under
\* path_stack[i+1].
C9_StackInvariant ==
    /\ Len(stack) = Len(path_stack)
    /\ Len(stack) >= 1
    /\ stack[1] = 1
    /\ path_stack[1] = <<>>
    /\ \A i \in 1..(Len(stack) - 1) :
          /\ DictHas(heap[stack[i]], path_stack[i + 1])
          /\ DictGet(heap[stack[i]], path_stack[i + 1]) = stack[i + 1]

\* C9 witness: after an overwrite detached a mapping from the tree and after
\* a pop, two directories are open below the root
C9_Witness ==
    /\ Len(stack) >= 3
    /\ \E n \in 1..Len(heap) : n \notin Reachable(heap, 1)
    /\ \E j \in 2..Len(hist) : hist[j].indent < hist[j - 1].indent

\* what the tree of display_welcome is to leave below demo
ExpectedDemo ==
    { [path |-> <<Demo>>, kind |-> "dir", empty |-> TRUE],
      [path |-> <<Demo, NameSrc>>, kind |-> "dir", empty |-> TRUE],
      [path |-> <<Demo, NameSrc, NameUtils>>, kind |-> "dir", empty |-> TRUE],
      [path |-> <<Demo, NameSrc, NameMainPy>>, kind |-> "file", empty |-> TRUE],
      [path |-> <<Demo, NameReadme>>, kind |-> "file", empty |-> TRUE] }

\* C1: the tree-parser flow on the five-line example with target demo leaves
\* exactly demo/src, demo/src/utils, demo/src/main.py and demo/README.md.
C1_ExampleOnDisk ==
    (outcome = "normal" /\ flow = "tree" /\ text = Join(ExampleTree, NL)
        /\ main_folder = Demo)
        => fs = ExpectedDemo

\* C5: in both flows, once the text is known to be empty or the parser has
\* returned an empty mapping, the filesystem is as it was at the start.
C5_EmptyNoMutation ==
    (\/ (pc \notin {"choice", "input"} /\ Strip(text) = <<>>)
     \/ (pc \notin {"choice", "input", "name", "parse"} /\ heap[1] = <<>>))
        => fs = fs0

\* the answers the claim counts as 'y': one y or Y with only spaces around it
IsYes(typed) ==
    \E i \in 1..Len(typed) :
        /\ typed[i] \in {"y", "Y"}
        /\ \A j \in 1..Len(typed) : j # i => typed[j] = " "

\* C6: in both flows rmtree is called only after the prompt was answered 'y';
\* after any other answer the run has ended, cancelled, with the filesystem
\* as it was; and a target that existed is not touched without that answer.
C6_RemovalConfirmed ==
    /\ removed => (asked /\ IsYes(answer))
    /\ (asked /\ ~IsYes(answer))
          => (pc = "done" /\ outcome = "cancelled" /\ fs = fs0 /\ ~removed)
    /\ (pc \notin {"choice", "input", "name"} /\ Exists(fs0, main_folder)
           /\ ~(asked /\ IsYes(answer)))
          => fs = fs0

\* C6 witness: an existing target was removed and rebuilt after an answer
\* that is 'y' only once stripped and lowered
C6_Witness ==
    /\ removed
    /\ answer \in {<<"Y">>, <<" ", "y", " ">>}
    /\ ~IsFileAt(fs, <<Demo, NameOld>>)
    /\ \E e \in fs : e.kind = "file" /\ e.empty
    /\ outcome = "normal"

\* C7: in both flows no fault of create_structure leaves the program uncaught.
C7_FaultsCaught == ~(pc = "create_failed" /\ outcome = "uncaught")

====
